---- MODULE Spec2Model ----
(***************************************************************************)
(* Model of reddit_researcher: the author-scoped ingestion / retention     *)
(* engine (src/ingestor/ingest.py), the review workflow's status writes    *)
(* and the pipeline run-state record (src/app/streamlit_app.py,            *)
(* src/utils/pipeline_health_check.py).                                    *)
(*                                                                         *)
(* Storage is PostgreSQL at READ COMMITTED (psycopg2's default): the       *)
(* ingestion process works in one open transaction per source, sees the    *)
(* committed rows plus its own uncommitted changes, and holds row locks on *)
(* the rows it deleted until it commits or rolls back.  The dashboard      *)
(* writes are single-statement transactions.                               *)
(***************************************************************************)
EXTENDS Integers, FiniteSets, Sequences, TLC

\* ---------------------------------------------------------------- bounds
\* The clock runs from ClockStart to MaxTime (in days); timestamp 0 is the Unix
\* epoch, which lies before every day of the model.
ClockStart == 1
MaxTime == 7
\* An ingestion run, from its start to its cleanup, spans at most MaxRunDays
\* ticks of the clock.
MaxRunDays == 1
\* The clock of the pipeline run-state specification stops at MaxPipelineTime.
MaxPipelineTime == 2
\* The largest batch size, and the largest score the API hands out.
MaxBatch == 2
MaxScore == 1

\* ------------------------------------------------------- program constants
\* datetime.timedelta(days=3): the freshness horizon of ingestion.
FreshnessDays == 3
\* datetime.timedelta(days=5): the retention window of cleanup_old_posts.
RetentionDays == 5

NULL == "NULL"
\* A NULL process_pid (is_process_running: "if not pid") and a NULL timestamp
\* (get_pipeline_status: "last_run.timestamp() if last_run else 0").
NoPid == 0
NoTime == 0
NoAuthor == "none"

\* The workflow statuses (posts_raw.status); NULL is the value of a row the
\* INSERT of ingestion leaves without a status.
Statuses == {NULL, "open", "answered", "selected", "ignored", "sent", "lead"}

\* The protected set of the data model.
ProtectedStatuses == {"selected", "answered", "sent", "lead"}

\* existing_status in ['sent', 'selected', 'answered']
IngestProtected == {"sent", "selected", "answered"}

\* status NOT IN ('selected', 'answered', 'sent', 'lead')
\* A faulty variant: the list without 'lead', as ingestion has it.
CleanupProtectedNoLead == {"selected", "answered", "sent"}
CleanupProtected == {"selected", "answered", "sent", "lead"}

\* get_subreddits(): the configured sources, processed in this order.
Subreddits == <<"s1", "s2">>

\* The submissions the external feed can offer.  A submission's id fixes its
\* author, title, subreddit and creation day.  3 repeats the title and the
\* subreddit of 1 under a new id; 5 repeats the title of 1 in another
\* subreddit; 6 is a submission whose author was deleted.
Feed ==
  { [id |-> 1, author |-> "u1", title |-> "t1", subreddit |-> "s1", created |-> 1],
    [id |-> 2, author |-> "u1", title |-> "t2", subreddit |-> "s1", created |-> 2],
    [id |-> 3, author |-> "u1", title |-> "t1", subreddit |-> "s1", created |-> 2],
    [id |-> 4, author |-> "u2", title |-> "t1", subreddit |-> "s2", created |-> 1],
    [id |-> 5, author |-> "u1", title |-> "t1", subreddit |-> "s2", created |-> 2],
    [id |-> 6, author |-> NoAuthor, title |-> "t2", subreddit |-> "s2", created |-> 2] }

PostIds == {c.id : c \in Feed}

NoPost == [id |-> 0]

\* The value of `last` after a step no property looks at.
NoOp == [op |-> "none"]

VARIABLES
  now,             \* the wall clock, in days
  posts_raw,       \* committed rows of posts_raw
  users,           \* committed rows of users (their ids)
  txDel,           \* ids of committed rows the open ingestion transaction deleted
  txIns,           \* rows the open ingestion transaction inserted
  txUsers,         \* users rows the open ingestion transaction inserted
  ipc,             \* position of the ingestion process
  api,             \* "praw" (ingest_with_reddit_api) or "pushshift"
  src,             \* index of the subreddit being ingested
  offered,         \* ids the feed has yielded for this subreddit in this run
  three_days_ago,  \* the freshness horizon computed at the start of the run
  submission,      \* the submission being admitted
  existing_post,   \* the row read for the submission's author
  feed,            \* the submissions the external site holds
  pipeline_status, \* the singleton row of pipeline_status, or NoRow
  procs,           \* the operating system's process table
  psutil,          \* whether the psutil module can be imported
  spc,             \* position of each dashboard session in main()
  rec,             \* the row a session's get_pipeline_status has read
  status,          \* check_pipeline_completion's status dict, per session
  complete,        \* main()'s pipeline_complete, per session
  is_running,      \* main()'s pipeline_status['is_running'], per session
  current_time,    \* main()'s current_time, per session
  process,         \* the pid a session's Popen returned
  owner,           \* the pid spawned by the launch that marked the row running
  hpc,             \* position of the health check: "idle" or "probe"
  hrec,            \* the row the health check has read (db_status)
  priority_score,  \* the priority_score column of posts_raw, by id
  gpc,             \* position of the Gemini scoring run
  batch_size,      \* processing_config['gemini_batch_size']
  posts,           \* the ids of the batch fetch_unprocessed_posts returned
  attempt,         \* calls of the Gemini API made for this batch
  waits,           \* the waits slept between the calls for this batch
  analyzed_posts,  \* what process_batch_with_api returned: id -> score
  conn,            \* the scoring run's database connection: "up" or "lost"
  reconnects,      \* update_processed_posts' loop counter (attempt)
  user_rows,       \* the users table with its profile columns, by id
  upc,             \* position of the author upsert: "idle" or "insert"
  user_data,       \* the tuple the author upsert is about to insert
  last             \* what the last step did (for stating the properties)

ingestVars == <<posts_raw, users, txDel, txIns, txUsers, ipc, api, src, offered,
                three_days_ago, submission, existing_post, feed>>
pipeVars == <<pipeline_status, procs, psutil, spc, rec, status, complete,
              is_running, current_time, process, owner, hpc, hrec>>
enrichVars == <<priority_score, gpc, batch_size, posts, attempt, waits,
                analyzed_posts, conn, reconnects>>
userVars == <<user_rows, upc, user_data>>
vars == <<now, ingestVars, pipeVars, enrichVars, userVars, last>>

\* ------------------------------------------------------------ the storage
\* What a statement of the ingestion transaction sees.
View == {p \in posts_raw : p.id \notin txDel} \cup txIns
UsersView == users \cup txUsers

\* conn.rollback()
Rollback ==
  /\ txDel' = {}
  /\ txIns' = {}
  /\ txUsers' = {}
  /\ UNCHANGED <<posts_raw, users>>

\* conn.commit()
Commit ==
  /\ posts_raw' = View
  /\ users' = UsersView
  /\ txDel' = {}
  /\ txIns' = {}
  /\ txUsers' = {}

Row(c) == [id |-> c.id, author |-> c.author, title |-> c.title,
           subreddit |-> c.subreddit, created |-> c.created, status |-> NULL]

\* ------------------------------------------------------------------ Init
IngestIdle ==
  /\ txDel = {}
  /\ txIns = {}
  /\ txUsers = {}
  /\ ipc = "idle"
  /\ api = "praw"
  /\ src = 1
  /\ offered = {}
  /\ three_days_ago = 0
  /\ submission = NoPost
  /\ existing_post = NoPost
  /\ last = NoOp

InitIngest ==
  /\ now = ClockStart
  /\ posts_raw = {}
  /\ users = {}
  /\ IngestIdle

\* The dashboard session (a browser tab) running main().
Sessions == {"A"}

\* Process ids, and what the process table holds for one: nothing, the
\* launched pipeline job, the job as a zombie, or an unrelated program.
Pids == {11, 12}
NoRow == [absent |-> TRUE]
NoRec == [none |-> TRUE]

\* {'last_run': 0, 'is_running': False, 'last_completion': 0, 'process_pid': None}
DefaultStatus ==
  [last_run |-> 0, is_running |-> FALSE, last_completion |-> 0, process_pid |-> NoPid]

InitPipeline ==
  /\ pipeline_status = NoRow
  /\ procs = [p \in Pids |-> "none"]
  /\ spc = [s \in Sessions |-> "idle"]
  /\ rec = [s \in Sessions |-> NoRec]
  /\ status = [s \in Sessions |-> DefaultStatus]
  /\ complete = [s \in Sessions |-> FALSE]
  /\ is_running = [s \in Sessions |-> FALSE]
  /\ current_time = [s \in Sessions |-> 0]
  /\ process = [s \in Sessions |-> NoPid]
  /\ owner = NoPid
  /\ hpc = "idle"
  /\ hrec = NoRec

\* priority_score IS NULL, as a number beside the scores.
NoScore == -1

\* No row is scored and the Gemini scoring run has not been started.

EnrichIdle ==
  /\ priority_score = [id \in PostIds |-> NoScore]
  /\ gpc = "idle"
  /\ batch_size = 0
  /\ posts = {}
  /\ attempt = 0
  /\ waits = <<>>
  /\ analyzed_posts = <<>>
  /\ conn = "up"
  /\ reconnects = 0

\* The author ids of the feed, and the absent users row.
Authors == {c.author : c \in Feed} \ {NoAuthor}
NoUser == [absent |-> TRUE]

\* The profile columns of users are followed where the author upsert is
\* studied; elsewhere the table is the set of its ids (users).
UsersIdle ==
  /\ user_rows = [a \in Authors |-> NoUser]
  /\ upc = "idle"
  /\ user_data = NoUser

Init ==
  /\ UsersIdle
  /\ EnrichIdle
  /\ InitIngest
  /\ feed = Feed
  /\ InitPipeline
  /\ psutil = TRUE

\* --------------------------------------------------------------- ingestion
\* main(): try the Reddit API, fall back to Pushshift when it reports failure
\* before doing any work (incomplete API configuration).  Both compute the
\* freshness horizon once, at the start.
IngestStart ==
  /\ ipc = "idle"
  /\ api' \in {"praw", "pushshift"}
  /\ three_days_ago' = now - FreshnessDays
  /\ src' = 1
  /\ offered' = {}
  /\ ipc' = "fetch"
  /\ last' = NoOp
  /\ UNCHANGED <<now, feed, pipeVars, userVars, enrichVars, posts_raw, users, txDel, txIns, txUsers, submission, existing_post>>

\* What the feed of the current subreddit can yield next: newest first, each
\* submission once.  Pushshift is queried with after=three_days_ago.
Candidates ==
  {c \in feed :
     /\ c.subreddit = Subreddits[src]
     /\ c.created <= now
     /\ c.id \notin offered
     /\ \A o \in feed : o.id \in offered => c.created <= o.created
     /\ api = "pushshift" => c.created > three_days_ago}

\* A faulty variant: after the last subreddit the run ends without the cleanup.
NextSourceNoCleanup ==
  /\ offered' = {}
  /\ submission' = NoPost
  /\ existing_post' = NoPost
  /\ IF src < Len(Subreddits)
       THEN src' = src + 1 /\ ipc' = "fetch" /\ UNCHANGED api
       ELSE src' = 1 /\ ipc' = "idle" /\ api' = "praw"
  /\ UNCHANGED three_days_ago

\* After the loop over one subreddit: the next subreddit, or the end of the run.
\* ingest_with_* returns True and main() goes on to cleanup_old_posts.
NextSource ==
  /\ offered' = {}
  /\ submission' = NoPost
  /\ existing_post' = NoPost
  /\ IF src < Len(Subreddits)
       THEN src' = src + 1 /\ ipc' = "fetch" /\ UNCHANGED api
       ELSE src' = 1 /\ ipc' = "cleanup" /\ api' = "praw"
  /\ UNCHANGED three_days_ago

\* A faulty variant: the check for a stored id finds nothing.
IdExistsNever(c) == FALSE

\* SELECT 1 FROM posts_raw WHERE id = %s
IdExists(c) == \E p \in View : p.id = c.id

\* PRAW: a submission older than the horizon, or one already stored, ends the
\* loop over this subreddit (break), and the subreddit's work is committed.
FetchBreak ==
  /\ ipc = "fetch"
  /\ api = "praw"
  /\ \E c \in Candidates :
       /\ c.created < three_days_ago \/ IdExists(c)
       /\ last' = [op |-> "FetchBreak", cand |-> c, preView |-> View,
                   why |-> IF c.created < three_days_ago THEN "stale" ELSE "exists"]
  /\ Commit
  /\ NextSource
  /\ UNCHANGED <<now, feed, pipeVars, userVars, enrichVars>>

\* A submission that is skipped before the author lookup (continue): no author,
\* or (Pushshift) an id that is already stored.
FetchSkip ==
  /\ ipc = "fetch"
  /\ \E c \in Candidates :
       /\ api = "praw" => ~(c.created < three_days_ago) /\ ~IdExists(c)
       /\ \/ api = "pushshift" /\ IdExists(c)
          \/ ~IdExists(c) /\ c.author = NoAuthor
       /\ offered' = offered \cup {c.id}
       /\ last' = [op |-> "FetchSkip", cand |-> c, preView |-> View,
                   why |-> IF IdExists(c) THEN "exists" ELSE "noauthor"]
  /\ UNCHANGED <<now, feed, pipeVars, userVars, enrichVars, posts_raw, users, txDel, txIns, txUsers, ipc, api, src,
                 three_days_ago, submission, existing_post>>

\* SELECT id, status, title, subreddit FROM posts_raw WHERE author_id = %s;
\* fetchone(): one of the author's rows, or none.
AuthorRows(a) == {p \in View : p.author = a}

FetchLookup ==
  /\ ipc = "fetch"
  /\ \E c \in Candidates :
       /\ api = "praw" => ~(c.created < three_days_ago)
       /\ ~IdExists(c)
       /\ c.author # NoAuthor
       /\ offered' = offered \cup {c.id}
       /\ submission' = c
       /\ IF AuthorRows(c.author) = {}
            THEN existing_post' = NoPost
            ELSE existing_post' \in AuthorRows(c.author)
       /\ last' = NoOp
  /\ ipc' = "decide"
  /\ UNCHANGED <<now, feed, pipeVars, userVars, enrichVars, posts_raw, users, txDel, txIns, txUsers, api, src, three_days_ago>>

\* Reading the candidate's author raises something other than AttributeError
\* (author.fullname fetches the account), or the author SELECT raises.  PRAW:
\* no handler inside the loop catches it, so the subreddit's handler does:
\* conn.rollback(), and the next subreddit is tried.  Pushshift: the
\* per-submission handler prints the error and the loop continues.
CandidateError ==
  /\ ipc = "fetch"
  /\ \E c \in Candidates :
       /\ api = "praw" => ~(c.created < three_days_ago)
       /\ ~IdExists(c)
       /\ c.author # NoAuthor
       /\ last' = [op |-> "CandidateError", cand |-> c, src |-> src, api |-> api]
       /\ IF api = "praw"
            THEN Rollback /\ NextSource
            ELSE /\ offered' = offered \cup {c.id}
                 /\ UNCHANGED <<posts_raw, users, txDel, txIns, txUsers, ipc, api, src,
                                three_days_ago, submission, existing_post>>
  /\ UNCHANGED <<now, feed, pipeVars, userVars, enrichVars>>

\* The feed of this subreddit is exhausted: conn.commit().
EndOfFeed ==
  /\ ipc = "fetch"
  /\ Commit
  /\ NextSource
  /\ last' = NoOp
  /\ UNCHANGED <<now, feed, pipeVars, userVars, enrichVars>>

\* The feed raises while it is iterated.  PRAW: the subreddit's work is rolled
\* back and the next subreddit is tried.  Pushshift: the exception ends the
\* function, which returns False, and main() skips the cleanup.
SourceError ==
  /\ ipc = "fetch"
  /\ Rollback
  /\ IF api = "praw"
       THEN NextSource
       ELSE /\ ipc' = "idle"
            /\ src' = 1
            /\ api' = "praw"
            /\ three_days_ago' = 0
            /\ offered' = {}
            /\ submission' = NoPost
            /\ existing_post' = NoPost
  /\ last' = NoOp
  /\ UNCHANGED <<now, feed, pipeVars, userVars, enrichVars>>

\* The outcome of admitting `submission`, decided on the row read before.
Continue ==
  /\ ipc' = "fetch"
  /\ submission' = NoPost
  /\ existing_post' = NoPost

\* if existing_status in ['sent', 'selected', 'answered']: ... continue
DecideSkipProtected ==
  /\ ipc = "decide"
  /\ existing_post # NoPost
  /\ existing_post.status \in IngestProtected
  /\ Continue
  /\ last' = [op |-> "Admit", result |-> "SkippedProtected", cand |-> submission,
              existing |-> existing_post, preView |-> View, preUsers |-> UsersView]
  /\ UNCHANGED <<now, feed, pipeVars, userVars, enrichVars, posts_raw, users, txDel, txIns, txUsers, api, src, offered,
                 three_days_ago>>

\* PRAW: existing_title == submission.title and
\*       existing_subreddit == submission.subreddit.display_name.
\* Pushshift hands out the subreddit as a string, so evaluating the second
\* operand raises AttributeError, which the per-submission handler swallows:
\* there an equal title alone ends the admission.
\* A faulty variant: the subreddit comparison is inverted.
IdenticalInverted(e, c) ==
  IF api = "praw"
    THEN e.title = c.title /\ e.subreddit # c.subreddit
    ELSE e.title = c.title

Identical(e, c) ==
  IF api = "praw"
    THEN e.title = c.title /\ e.subreddit = c.subreddit
    ELSE e.title = c.title

DecideSkipIdentical ==
  /\ ipc = "decide"
  /\ existing_post # NoPost
  /\ existing_post.status \notin IngestProtected
  /\ Identical(existing_post, submission)
  /\ Continue
  /\ last' = [op |-> "Admit",
              result |-> IF api = "praw" THEN "SkippedDuplicate" ELSE "CompareError",
              cand |-> submission,
              existing |-> existing_post, preView |-> View, preUsers |-> UsersView]
  /\ UNCHANGED <<now, feed, pipeVars, userVars, enrichVars, posts_raw, users, txDel, txIns, txUsers, api, src, offered,
                 three_days_ago>>

\* DELETE FROM posts_raw WHERE id = %s
\* A faulty variant: the DELETE of the author's old row is left out.
DeletePostSkipped(id) ==
  /\ txDel' = txDel
  /\ txIns' = txIns

DeletePost(id) ==
  /\ txDel' = txDel \cup {p.id : p \in {q \in posts_raw : q.id = id}}
  /\ txIns' = {p \in txIns : p.id # id}

\* The status the row has in storage at the moment it is deleted.
StatusNow(id) ==
  IF \E p \in View : p.id = id
    THEN (CHOOSE p \in View : p.id = id).status
    ELSE "gone"

DecideReplace ==
  /\ ipc = "decide"
  /\ existing_post # NoPost
  /\ existing_post.status \notin IngestProtected
  /\ ~Identical(existing_post, submission)
  /\ DeletePost(existing_post.id)
  /\ ipc' = "user"
  /\ last' = [op |-> "Delete", cand |-> submission, existing |-> existing_post,
              statusAtDelete |-> StatusNow(existing_post.id)]
  /\ UNCHANGED <<now, feed, pipeVars, userVars, enrichVars, posts_raw, users, txUsers, api, src, offered, three_days_ago,
                 submission, existing_post>>

DecideNoExisting ==
  /\ ipc = "decide"
  /\ existing_post = NoPost
  /\ ipc' = "user"
  /\ last' = NoOp
  /\ UNCHANGED <<now, feed, pipeVars, userVars, enrichVars, posts_raw, users, txDel, txIns, txUsers, api, src, offered,
                 three_days_ago, submission, existing_post>>

\* SELECT 1 FROM users WHERE id = %s: the author is known, nothing is written.
UserExists ==
  /\ ipc = "user"
  /\ submission.author \in UsersView
  /\ ipc' = "insert"
  /\ last' = NoOp
  /\ UNCHANGED <<now, feed, pipeVars, userVars, enrichVars, posts_raw, users, txDel, txIns, txUsers, api, src, offered,
                 three_days_ago, submission, existing_post>>

\* A faulty variant: the admission goes on to the Item without the users row.
UserInsertSkipped ==
  /\ ipc = "user"
  /\ submission.author \notin UsersView
  /\ ipc' = "insert"
  /\ last' = NoOp
  /\ UNCHANGED <<now, feed, pipeVars, userVars, enrichVars, posts_raw, users, txDel, txIns,
                 txUsers, api, src, offered, three_days_ago, submission, existing_post>>

\* INSERT INTO users ... ON CONFLICT (id) DO UPDATE
UserInsert ==
  /\ ipc = "user"
  /\ submission.author \notin UsersView
  /\ txUsers' = txUsers \cup {submission.author}
  /\ ipc' = "insert"
  /\ last' = NoOp
  /\ UNCHANGED <<now, feed, pipeVars, userVars, enrichVars, posts_raw, users, txDel, txIns, api, src, offered,
                 three_days_ago, submission, existing_post>>

\* The users INSERT raises (username taken under another id, or any storage
\* error): conn.rollback(); continue.
UserInsertFails ==
  /\ ipc = "user"
  /\ submission.author \notin UsersView
  /\ Rollback
  /\ Continue
  /\ last' = [op |-> "Admit", result |-> "Error", cand |-> submission,
              existing |-> existing_post, preView |-> View, preUsers |-> UsersView]
  /\ UNCHANGED <<now, feed, pipeVars, userVars, enrichVars, api, src, offered, three_days_ago>>

\* INSERT INTO posts_raw ... ON CONFLICT (id) DO NOTHING
InsertRow(c) ==
  IF \E p \in View : p.id = c.id THEN txIns ELSE txIns \cup {Row(c)}

InsertPost ==
  /\ ipc = "insert"
  /\ txIns' = InsertRow(submission)
  /\ Continue
  /\ last' = [op |-> "Admit",
              result |-> IF existing_post = NoPost THEN "Inserted" ELSE "Replaced",
              cand |-> submission,
              existing |-> existing_post, preView |-> View, preUsers |-> UsersView]
  /\ UNCHANGED <<now, feed, pipeVars, userVars, enrichVars, posts_raw, users, txDel, txUsers, api, src, offered, three_days_ago>>

\* The posts_raw INSERT raises: conn.rollback(); continue.
InsertPostFails ==
  /\ ipc = "insert"
  /\ Rollback
  /\ Continue
  /\ last' = [op |-> "Admit", result |-> "Error", cand |-> submission,
              existing |-> existing_post, preView |-> View, preUsers |-> UsersView]
  /\ UNCHANGED <<now, feed, pipeVars, userVars, enrichVars, api, src, offered, three_days_ago>>

\* ----------------------------------------------------------------- cleanup
\* A faulty variant: the reap takes every unprotected row, whatever its age.
ReapableAtAnyAge(p, five_days_ago) ==
  p.status = NULL \/ p.status \notin CleanupProtected

\* created_utc < five_days_ago AND
\* (status IS NULL OR status NOT IN ('selected', 'answered', 'sent', 'lead'))
Reapable(p, five_days_ago) ==
  /\ p.created < five_days_ago
  /\ p.status = NULL \/ p.status \notin CleanupProtected

\* cleanup_old_posts, called by main() after a successful ingestion, on a
\* connection of its own.
CleanupOldPosts ==
  /\ ipc = "cleanup"
  /\ posts_raw' = {p \in posts_raw : ~Reapable(p, now - RetentionDays)}
  /\ ipc' = "idle"
  /\ last' = [op |-> "Cleanup", prePosts |-> posts_raw,
              five_days_ago |-> now - RetentionDays, horizon |-> three_days_ago]
  /\ three_days_ago' = 0
  /\ UNCHANGED <<now, feed, pipeVars, userVars, enrichVars, users, txDel, txIns, txUsers, api, src, offered,
                 submission, existing_post>>

\* The cleanup cannot reach the database: nothing is deleted, it returns False.
CleanupFails ==
  /\ ipc = "cleanup"
  /\ ipc' = "idle"
  /\ three_days_ago' = 0
  /\ last' = NoOp
  /\ UNCHANGED <<now, feed, pipeVars, userVars, enrichVars, posts_raw, users, txDel, txIns, txUsers, api, src, offered,
                 submission, existing_post>>

\* ----------------------------------------------------------- review workflow
\* The statuses the dashboard's buttons write.
ButtonStatuses == {"open", "answered", "selected", "ignored"}

SetStatus(rows, ids, from, to) ==
  {IF p.id \in ids /\ p.status \in from THEN [p EXCEPT !.status = to] ELSE p : p \in rows}

\* update_post_status: UPDATE posts_raw SET status = %s WHERE url = %s, one
\* committed statement.  It waits while the ingestion transaction holds the
\* row's lock (the row is deleted there and not yet committed).
UpdatePostStatus ==
  /\ \E p \in posts_raw, s \in ButtonStatuses :
       /\ p.id \notin txDel
       /\ p.status # s
       /\ posts_raw' = SetStatus(posts_raw, {p.id}, Statuses, s)
       /\ last' = NoOp
  /\ UNCHANGED <<now, feed, pipeVars, userVars, enrichVars, users, txDel, txIns, txUsers, ipc, api, src, offered,
                 three_days_ago, submission, existing_post>>

\* A faulty variant: the rows are marked sent whether or not the e-mail went out.
MarkSentRegardless(rows, success) == SetStatus(rows, PostIds, {"selected"}, "sent")

\* send_selected_posts_email after send_email returned success: if success,
\* UPDATE posts_raw SET status = 'sent' WHERE url = ANY(%s) AND status = 'selected';
\* otherwise nothing is written.
MarkSent(rows, success) ==
  IF success THEN SetStatus(rows, PostIds, {"selected"}, "sent") ELSE rows

\* A faulty variant: the export also marks the rows that are still selected.
MarkLeadFromSelected(rows, success) ==
  IF success THEN SetStatus(rows, PostIds, {"selected", "sent"}, "lead") ELSE rows

\* sync_sent_posts_to_google_sheets after add_posts returned success: if success,
\* UPDATE posts_raw SET status = 'lead' WHERE url = ANY(%s) AND status = 'sent'.
MarkLead(rows, success) ==
  IF success THEN SetStatus(rows, PostIds, {"sent"}, "lead") ELSE rows

\* send_selected_posts_email with the outcome of send_email; record is what
\* `last` keeps of the step.
SendSelectedPostsEmailRun(success, record) ==
  /\ \E p \in posts_raw : p.status = "selected"
  /\ \A p \in posts_raw : p.status = "selected" => p.id \notin txDel
  /\ posts_raw' = MarkSent(posts_raw, success)
  /\ last' = record
  /\ UNCHANGED <<now, feed, pipeVars, userVars, enrichVars, users, txDel, txIns, txUsers, ipc, api, src, offered,
                 three_days_ago, submission, existing_post>>

\* sync_sent_posts_to_google_sheets (the background thread) with the outcome
\* of the export to the sheet.
SyncSentPostsToGoogleSheetsRun(success, record) ==
  /\ \E p \in posts_raw : p.status = "sent"
  /\ \A p \in posts_raw : p.status = "sent" => p.id \notin txDel
  /\ posts_raw' = MarkLead(posts_raw, success)
  /\ last' = record
  /\ UNCHANGED <<now, feed, pipeVars, userVars, enrichVars, users, txDel, txIns, txUsers, ipc, api, src, offered,
                 three_days_ago, submission, existing_post>>

\* Beside the ingestion the two are taken with their sinks working (a failed
\* sink writes nothing), and unrecorded.
SendSelectedPostsEmail == SendSelectedPostsEmailRun(TRUE, NoOp)

SyncSentPostsToGoogleSheets == SyncSentPostsToGoogleSheetsRun(TRUE, NoOp)

\* The two with a sink that works or fails.
SendSelectedPostsEmailAny ==
  \E success \in BOOLEAN :
    SendSelectedPostsEmailRun(success,
      [op |-> "Email", success |-> success, pre |-> posts_raw])

SyncSentPostsToGoogleSheetsAny ==
  \E success \in BOOLEAN :
    SyncSentPostsToGoogleSheetsRun(success,
      [op |-> "Sheet", success |-> success, pre |-> posts_raw])

\* The clock advances.
Tick ==
  /\ now < MaxTime
  /\ ipc # "idle" => now < three_days_ago + FreshnessDays + MaxRunDays
  /\ now' = now + 1
  /\ last' = NoOp
  /\ UNCHANGED <<ingestVars, pipeVars, userVars, enrichVars>>

IngestNext ==
  \/ IngestStart
  \/ FetchBreak
  \/ FetchSkip
  \/ FetchLookup
  \/ CandidateError
  \/ EndOfFeed
  \/ SourceError
  \/ DecideSkipProtected
  \/ DecideSkipIdentical
  \/ DecideReplace
  \/ DecideNoExisting
  \/ UserExists
  \/ UserInsert
  \/ UserInsertFails
  \/ InsertPost
  \/ InsertPostFails
  \/ CleanupOldPosts
  \/ CleanupFails

ReviewNext ==
  \/ UpdatePostStatus
  \/ SendSelectedPostsEmail
  \/ SyncSentPostsToGoogleSheets

Next == IngestNext \/ ReviewNext \/ Tick

Spec == Init /\ [][Next]_vars

\* ======================================================= pipeline run state
ingestFrame == <<posts_raw, users, txDel, txIns, txUsers, ipc, api, src, offered,
                 three_days_ago, submission, existing_post, feed>>

\* The row an upsert starts from: the stored row, or the column defaults of
\* the row the INSERT creates.
UpsertBase(row) ==
  IF row = NoRow
    THEN [last_run |-> NoTime, is_running |-> FALSE, last_completion |-> NoTime,
          process_pid |-> NoPid]
    ELSE row

\* store_pipeline_pid: INSERT ... (id, process_pid) ... ON CONFLICT (id)
\* DO UPDATE SET process_pid = EXCLUDED.process_pid
store_pipeline_pid(row, pid) == [UpsertBase(row) EXCEPT !.process_pid = pid]

\* update_pipeline_status(db_config, timestamp, action)
\* A faulty variant: 'failed' clears is_running and keeps process_pid.
update_pipeline_status_keeps_pid(row, timestamp, action) ==
  CASE action = "start" ->
         [UpsertBase(row) EXCEPT !.last_run = timestamp, !.is_running = TRUE]
    [] action = "complete" ->
         [UpsertBase(row) EXCEPT !.last_completion = timestamp, !.is_running = FALSE]
    [] action = "failed" ->
         [UpsertBase(row) EXCEPT !.is_running = FALSE]

update_pipeline_status(row, timestamp, action) ==
  CASE action = "start" ->
         [UpsertBase(row) EXCEPT !.last_run = timestamp, !.is_running = TRUE]
    [] action = "complete" ->
         [UpsertBase(row) EXCEPT !.last_completion = timestamp, !.is_running = FALSE]
    [] action = "failed" ->
         [UpsertBase(row) EXCEPT !.is_running = FALSE, !.process_pid = NoPid]

\* How an inspection of process pid can end: it works ("ok"); the operating
\* system refuses it (psutil.AccessDenied, PermissionError from os.kill), which
\* a zombie of the dashboard's own child does not meet; without psutil, the ps command
\* times out or cannot be run ("timeout"), or exits with a non-zero code
\* ("psfail").  A pid that names no process is not inspected at all.
Probes(pid) ==
  IF procs[pid] = "none" THEN {"ok"}
  ELSE {"ok"} \cup (IF procs[pid] = "zombie" THEN {} ELSE {"denied"})
              \cup (IF psutil THEN {} ELSE {"timeout", "psfail"})

\* is_process_running(pid), with psutil and with the os.kill / ps fallback.
\* A faulty variant: with psutil, any live process under the pid counts as
\* running, whatever its command line.
is_process_running_foreign_alive(pid, probe) ==
  IF pid = NoPid THEN FALSE
  ELSE IF psutil
    THEN IF procs[pid] = "none" THEN FALSE
         ELSE IF probe = "denied" THEN FALSE
         ELSE procs[pid] # "zombie"
    ELSE IF procs[pid] = "none" THEN FALSE
         ELSE IF probe = "denied" THEN FALSE
         ELSE IF probe = "timeout" THEN TRUE
         ELSE IF probe = "psfail" THEN FALSE
         ELSE procs[pid] # "zombie"

is_process_running(pid, probe) ==
  IF pid = NoPid THEN FALSE
  ELSE IF psutil
    THEN IF procs[pid] = "none" THEN FALSE
         ELSE IF probe = "denied" THEN FALSE
         ELSE IF procs[pid] = "zombie" THEN FALSE
         ELSE procs[pid] = "pipeline"
    ELSE IF procs[pid] = "none" THEN FALSE
         ELSE IF probe = "denied" THEN FALSE
         ELSE IF probe = "timeout" THEN TRUE
         ELSE IF probe = "psfail" THEN FALSE
         ELSE procs[pid] # "zombie"

\* if is_running and process_pid:
NeedsProbe(row) == row # NoRow /\ row.is_running /\ row.process_pid # NoPid

RowRunning(row) == row # NoRow /\ row.is_running

\* The dict get_pipeline_status builds from the row it read.
StatusOf(row) ==
  IF row = NoRow
    THEN DefaultStatus
    ELSE [last_run |-> IF row.last_run = NoTime THEN 0 ELSE row.last_run,
          is_running |-> row.is_running,
          last_completion |-> IF row.last_completion = NoTime THEN 0
                              ELSE row.last_completion,
          process_pid |-> row.process_pid]

\* A faulty variant: the auto-fix leaves is_running of the returned dict as read.
FixedStatusStillRunning(row) == StatusOf(row)

\* After the auto-fix: is_running = False, the other fields as read.
FixedStatus(row) == [StatusOf(row) EXCEPT !.is_running = FALSE]

\* main() calls get_pipeline_status itself ("m1"), through
\* check_pipeline_completion ("cc"), and once more when the pipeline is not
\* complete ("m3").
Ctx(pc) ==
  CASE pc \in {"m1r", "m1f"} -> "m1"
    [] pc \in {"ccr", "ccf"} -> "cc"
    [] pc \in {"m3r", "m3f"} -> "m3"

\* get_pipeline_status returns d to its caller in session s.
\* check_pipeline_completion returns True at once when d is not running.
Return(s, d) ==
  LET ctx == Ctx(spc[s]) IN
  /\ rec' = [rec EXCEPT ![s] = NoRec]
  /\ spc' = [spc EXCEPT ![s] =
               CASE ctx = "m1" -> "ccr"
                 [] ctx = "cc" -> IF d.is_running THEN "ccq" ELSE "btn"
                 [] ctx = "m3" -> "btn"]
  /\ status' = [status EXCEPT ![s] =
                  IF ctx = "cc" /\ d.is_running THEN d ELSE DefaultStatus]
  /\ complete' = [complete EXCEPT ![s] = IF ctx = "cc" THEN ~d.is_running ELSE @]
  /\ is_running' = [is_running EXCEPT ![s] = IF ctx = "m3" THEN d.is_running ELSE @]

\* SELECT COUNT(*) FROM posts_raw WHERE created_utc > last_run
\* A faulty variant: created_utc >= last_run.
NewPostsSinceInclusive(t) == \E p \in posts_raw : p.created >= t

NewPostsSince(t) == \E p \in posts_raw : p.created > t

\* What a step of get_pipeline_status records: the row it read, the stored
\* row before the step, what the process table held for the row's pid and how
\* the inspection ended, whether the auto-fix ran and was stored, the dict
\* returned, and what the auto-fix of the step right before had found.
StatusStep(s, row, proc, probe, fixed, ok, d) ==
  [op |-> "GetStatus", ctx |-> Ctx(spc[s]), row |-> row, pre |-> pipeline_status,
   proc |-> proc, probe |-> probe, fixed |-> fixed, writeOk |-> ok,
   returned |-> d,
   after |-> IF last.op = "GetStatus" /\ last.fixed /\ last.writeOk
               THEN last.proc ELSE "nofix"]

\* A rerun of the dashboard script (a timer, a click, a new page load).
SessionRun(s) ==
  /\ spc[s] = "idle"
  /\ spc' = [spc EXCEPT ![s] = "m1r"]
  /\ last' = NoOp
  /\ UNCHANGED <<now, ingestFrame, userVars, enrichVars, hpc, hrec, pipeline_status, procs, psutil, rec, status,
                 complete, is_running, current_time, process, owner>>

\* get_pipeline_status reads a row that names a running pipeline with a pid:
\* the liveness check comes next.
GetStatusRead(s) ==
  /\ spc[s] \in {"m1r", "ccr", "m3r"}
  /\ NeedsProbe(pipeline_status)
  /\ rec' = [rec EXCEPT ![s] = pipeline_status]
  /\ spc' = [spc EXCEPT ![s] = CASE spc[s] = "m1r" -> "m1f"
                                 [] spc[s] = "ccr" -> "ccf"
                                 [] spc[s] = "m3r" -> "m3f"]
  /\ last' = NoOp
  /\ UNCHANGED <<now, ingestFrame, userVars, enrichVars, hpc, hrec, pipeline_status, procs, psutil, status,
                 complete, is_running, current_time, process, owner>>

\* get_pipeline_status reads no row, or a row it has no process to check for,
\* and returns what it read.
GetStatusReturn(s) ==
  /\ spc[s] \in {"m1r", "ccr", "m3r"}
  /\ ~NeedsProbe(pipeline_status)
  /\ Return(s, StatusOf(pipeline_status))
  /\ last' = StatusStep(s, pipeline_status, "unprobed", "none", FALSE, FALSE,
                        StatusOf(pipeline_status))
  /\ UNCHANGED <<now, ingestFrame, userVars, enrichVars, hpc, hrec, pipeline_status, procs, psutil, current_time,
                 process, owner>>

\* The read raises (the database cannot be reached): the defaults are returned.
GetStatusReadFails(s) ==
  /\ spc[s] \in {"m1r", "ccr", "m3r"}
  /\ Return(s, DefaultStatus)
  /\ last' = NoOp
  /\ UNCHANGED <<now, ingestFrame, userVars, enrichVars, hpc, hrec, pipeline_status, procs, psutil, current_time,
                 process, owner>>

\* The liveness check passes: the row is returned as it was read.
GetStatusAlive(s) ==
  /\ spc[s] \in {"m1f", "ccf", "m3f"}
  /\ \E probe \in Probes(rec[s].process_pid) :
       /\ is_process_running(rec[s].process_pid, probe)
       /\ last' = StatusStep(s, rec[s], procs[rec[s].process_pid], probe, FALSE,
                             FALSE, StatusOf(rec[s]))
  /\ Return(s, StatusOf(rec[s]))
  /\ UNCHANGED <<now, ingestFrame, userVars, enrichVars, hpc, hrec, pipeline_status, procs, psutil, current_time,
                 process, owner>>

\* The liveness check fails: update_pipeline_status(db_config, time.time(),
\* 'failed'), whose own failure is swallowed, and is_running = False in the
\* dict that is returned.
GetStatusFix(s) ==
  /\ spc[s] \in {"m1f", "ccf", "m3f"}
  /\ \E probe \in Probes(rec[s].process_pid), ok \in BOOLEAN :
       /\ ~is_process_running(rec[s].process_pid, probe)
       /\ pipeline_status' =
            IF ok THEN update_pipeline_status(pipeline_status, now, "failed")
                  ELSE pipeline_status
       /\ owner' = IF ok THEN NoPid ELSE owner
       /\ last' = StatusStep(s, rec[s], procs[rec[s].process_pid], probe, TRUE, ok,
                             FixedStatus(rec[s]))
  /\ Return(s, FixedStatus(rec[s]))
  /\ UNCHANGED <<now, ingestFrame, userVars, enrichVars, hpc, hrec, procs, psutil, current_time, process>>

\* check_pipeline_completion, after its status read said "running": count the
\* posts newer than last_run and mark the run complete when there are any.
CheckCompletion(s) ==
  /\ spc[s] = "ccq"
  /\ LET new == NewPostsSince(status[s].last_run) IN
     \E ok \in BOOLEAN :
       /\ ~new => ok
       /\ pipeline_status' =
            IF new /\ ok THEN update_pipeline_status(pipeline_status, now, "complete")
                         ELSE pipeline_status
       /\ owner' = IF new /\ ok THEN NoPid ELSE owner
       /\ complete' = [complete EXCEPT ![s] = new]
       /\ spc' = [spc EXCEPT ![s] = IF new THEN "btn" ELSE "m3r"]
       /\ last' = [op |-> "CheckCompletion", pre |-> pipeline_status,
                   returned |-> status[s], completed |-> new, writeOk |-> ok]
  /\ status' = [status EXCEPT ![s] = DefaultStatus]
  /\ UNCHANGED <<now, ingestFrame, userVars, enrichVars, hpc, hrec, procs, psutil, rec, is_running, current_time, process>>

\* The count query raises: "assume complete on error".
CheckCompletionFails(s) ==
  /\ spc[s] = "ccq"
  /\ complete' = [complete EXCEPT ![s] = TRUE]
  /\ spc' = [spc EXCEPT ![s] = "btn"]
  /\ status' = [status EXCEPT ![s] = DefaultStatus]
  /\ last' = NoOp
  /\ UNCHANGED <<now, ingestFrame, userVars, enrichVars, hpc, hrec, pipeline_status, procs, psutil, rec, is_running,
                 current_time, process, owner>>

\* if pipeline_status['is_running'] and not pipeline_complete: button_disabled
ButtonDisabled(s) == is_running[s] /\ ~complete[s]

EndOfScript(s) ==
  /\ spc' = [spc EXCEPT ![s] = "idle"]
  /\ complete' = [complete EXCEPT ![s] = FALSE]
  /\ is_running' = [is_running EXCEPT ![s] = FALSE]
  /\ current_time' = [current_time EXCEPT ![s] = 0]
  /\ process' = [process EXCEPT ![s] = NoPid]

\* `last` of the launch steps carries launchPre, the singleton row as it was
\* when the button was pressed, as long as the steps of the launch follow one
\* another directly (NoRec once another actor has stepped in between).
\* The script runs to its end without a launch.
NoLaunch(s) ==
  /\ spc[s] = "btn"
  /\ EndOfScript(s)
  /\ last' = NoOp
  /\ UNCHANGED <<now, ingestFrame, userVars, enrichVars, hpc, hrec, pipeline_status, procs, psutil, rec, status, owner>>

\* The button is pressed and run_pipeline_script fails before a process
\* exists (script not found, Popen raises): it returns False.
LaunchFails(s) ==
  /\ spc[s] = "btn"
  /\ ~ButtonDisabled(s)
  /\ EndOfScript(s)
  /\ last' = [op |-> "Launch", launched |-> FALSE, spawned |-> FALSE,
              launchPre |-> pipeline_status]
  /\ UNCHANGED <<now, ingestFrame, userVars, enrichVars, hpc, hrec, pipeline_status, procs, psutil, rec, status, owner>>

\* The button is pressed: subprocess.Popen starts the job, detached.
Popen(s) ==
  /\ spc[s] = "btn"
  /\ ~ButtonDisabled(s)
  /\ \E pid \in Pids :
       /\ procs[pid] = "none"
       /\ procs' = [procs EXCEPT ![pid] = "pipeline"]
       /\ process' = [process EXCEPT ![s] = pid]
  /\ current_time' = [current_time EXCEPT ![s] = now]
  /\ spc' = [spc EXCEPT ![s] = "pid"]
  /\ last' = [op |-> "Popen", launchPre |-> pipeline_status]
  /\ UNCHANGED <<now, ingestFrame, userVars, enrichVars, hpc, hrec, pipeline_status, psutil, rec, status, complete,
                 is_running, owner>>

\* store_pipeline_pid(db_config, process.pid); an exception is printed and
\* swallowed, and run_pipeline_script returns True all the same.
StorePid(s) ==
  /\ spc[s] = "pid"
  /\ \E ok \in BOOLEAN :
       /\ pipeline_status' =
            IF ok THEN store_pipeline_pid(pipeline_status, process[s])
                  ELSE pipeline_status
       /\ last' = [op |-> "StorePid",
                   launchPre |-> IF last.op = "Popen" THEN last.launchPre ELSE NoRec]
  /\ spc' = [spc EXCEPT ![s] = "upd"]
  /\ UNCHANGED <<now, ingestFrame, userVars, enrichVars, hpc, hrec, procs, psutil, rec, status, complete, is_running,
                 current_time, process, owner>>

\* update_pipeline_status(db_config, current_time, 'start'), then the script
\* ends (st.rerun() after a success, a toast after a failure).
UpdateStart(s) ==
  /\ spc[s] = "upd"
  /\ \E ok \in BOOLEAN :
       /\ pipeline_status' =
            IF ok THEN update_pipeline_status(pipeline_status, current_time[s], "start")
                  ELSE pipeline_status
       /\ owner' = IF ok THEN process[s] ELSE owner
       /\ last' = [op |-> "Launch", launched |-> ok, spawned |-> TRUE,
                   launchPre |-> IF last.op = "StorePid" THEN last.launchPre ELSE NoRec]
  /\ EndOfScript(s)
  /\ UNCHANGED <<now, ingestFrame, userVars, enrichVars, hpc, hrec, procs, psutil, rec, status>>

\* ------------------------------------------------------- the health check
\* is_pipeline_process_running(pid) of pipeline_health_check.py
is_pipeline_process_running(pid, probe) ==
  IF pid = NoPid THEN FALSE
  ELSE IF psutil
    THEN IF procs[pid] = "none" THEN FALSE
         ELSE IF probe = "denied" THEN FALSE
         ELSE IF procs[pid] = "zombie" THEN FALSE
         ELSE procs[pid] = "pipeline"
    ELSE IF procs[pid] = "none" THEN FALSE
         ELSE IF probe = "denied" THEN FALSE
         ELSE IF probe = "timeout" THEN TRUE
         ELSE IF probe = "psfail" THEN FALSE
         ELSE procs[pid] # "zombie"

\* fix_stale_pipeline_status: UPDATE pipeline_status SET is_running = FALSE,
\* process_pid = NULL WHERE id = 1
fix_stale_pipeline_status(row) ==
  IF row = NoRow THEN NoRow
  ELSE [row EXCEPT !.is_running = FALSE, !.process_pid = NoPid]

\* find_orphaned_pipeline_processes, less the pid the row read tracks.
Orphans(row) ==
  {p \in Pids : procs[p] = "pipeline" /\ (row = NoRow \/ p # row.process_pid)}

\* Whether the check for a run of more than two hours applies to the row read;
\* its outcome is below the grain of the clock, so it is an input (long).
RuntimeChecked(row) == RowRunning(row) /\ row.last_run # NoTime

\* issues_found at the end of perform_health_check: no row was read, the row
\* was stale, the run lasts more than two hours, untracked processes exist.
Issues(row, stale, long) ==
  (IF row = NoRow THEN {"norow"} ELSE {})
    \cup (IF stale THEN {"stale"} ELSE {})
    \cup (IF RuntimeChecked(row) /\ long THEN {"stuck"} ELSE {})
    \cup (IF Orphans(row) # {} THEN {"orphan"} ELSE {})

\* fixes_applied
Fixes(fixed, ok) == IF fixed /\ ok THEN {"stale"} ELSE {}

\* A faulty variant: issues that were repaired do not count.
ExitCodeUnlessRepaired(issues, fixes) == IF issues \subseteq fixes THEN 0 ELSE 1

\* main(): sys.exit(0 if result['healthy'] else 1), where
\* 'healthy': len(issues_found) == 0
ExitCode(issues, fixes) == IF issues = {} THEN 0 ELSE 1

\* What the run of the health check reports at its end; quiet is the --quiet
\* flag, which selects what is printed.
HealthResult(row, stale, ok, long, quiet) ==
  [issues |-> Issues(row, stale, long),
   fixes |-> Fixes(stale, ok),
   quiet |-> quiet,
   exit |-> ExitCode(Issues(row, stale, long), Fixes(stale, ok))]

\* perform_health_check reads a row that needs no process check (no row, or
\* the read fails and yields None; a row not marked running, or without a
\* pid): nothing is written, and the run ends with its report.
HealthNoProbe ==
  /\ hpc = "idle"
  /\ \E row \in {pipeline_status, NoRow}, long \in BOOLEAN, quiet \in BOOLEAN :
       /\ ~NeedsProbe(row)
       /\ long => RuntimeChecked(row)
       /\ last' = [op |-> "Health", row |-> row, pre |-> pipeline_status,
                   proc |-> "unprobed", probe |-> "ok",
                   fixed |-> FALSE, writeOk |-> FALSE,
                   result |-> HealthResult(row, FALSE, FALSE, long, quiet)]
  /\ UNCHANGED <<now, ingestFrame, userVars, enrichVars, pipeline_status, procs, psutil, spc, rec, status,
                 complete, is_running, current_time, process, owner, hpc, hrec>>

\* perform_health_check reads a row marked running with a pid; the process
\* check comes next.
HealthRead ==
  /\ hpc = "idle"
  /\ NeedsProbe(pipeline_status)
  /\ hrec' = pipeline_status
  /\ hpc' = "probe"
  /\ last' = NoOp
  /\ UNCHANGED <<now, ingestFrame, userVars, enrichVars, pipeline_status, procs, psutil, spc, rec, status,
                 complete, is_running, current_time, process, owner>>

\* The process check passes: nothing is written.  Longs and Quiets are the
\* values the run's two inputs are drawn from: whether a run in progress has
\* lasted more than two hours, and the --quiet flag.
HealthAliveRun(Longs, Quiets) ==
  /\ hpc = "probe"
  /\ \E probe \in Probes(hrec.process_pid), long \in Longs, quiet \in Quiets :
       /\ is_pipeline_process_running(hrec.process_pid, probe)
       /\ long => RuntimeChecked(hrec)
       /\ last' = [op |-> "Health", row |-> hrec, pre |-> pipeline_status,
                   proc |-> procs[hrec.process_pid], probe |-> probe,
                   fixed |-> FALSE, writeOk |-> FALSE,
                   result |-> HealthResult(hrec, FALSE, FALSE, long, quiet)]
  /\ hpc' = "idle"
  /\ hrec' = NoRec
  /\ UNCHANGED <<now, ingestFrame, userVars, enrichVars, pipeline_status, procs, psutil, spc, rec, status,
                 complete, is_running, current_time, process, owner>>

\* The process check fails: fix_stale_pipeline_status, whose own failure is
\* reported and swallowed.
HealthFixRun(Longs, Quiets) ==
  /\ hpc = "probe"
  /\ \E probe \in Probes(hrec.process_pid), ok \in BOOLEAN,
        long \in Longs, quiet \in Quiets :
       /\ ~is_pipeline_process_running(hrec.process_pid, probe)
       /\ long => RuntimeChecked(hrec)
       /\ pipeline_status' =
            IF ok THEN fix_stale_pipeline_status(pipeline_status) ELSE pipeline_status
       /\ owner' = IF ok THEN NoPid ELSE owner
       /\ last' = [op |-> "Health", row |-> hrec, pre |-> pipeline_status,
                   proc |-> procs[hrec.process_pid], probe |-> probe,
                   fixed |-> TRUE, writeOk |-> ok,
                   result |-> HealthResult(hrec, TRUE, ok, long, quiet)]
  /\ hpc' = "idle"
  /\ hrec' = NoRec
  /\ UNCHANGED <<now, ingestFrame, userVars, enrichVars, procs, psutil, spc, rec, status, complete,
                 is_running, current_time, process>>

\* Beside the dashboard the health check is taken as run without --quiet and
\* within two hours of the launch: the two inputs bear on its report only.
HealthAlive == HealthAliveRun({FALSE}, {FALSE})

HealthFix == HealthFixRun({FALSE}, {FALSE})

\* The health check with every input.
HealthAliveAny == HealthAliveRun(BOOLEAN, BOOLEAN)

HealthFixAny == HealthFixRun(BOOLEAN, BOOLEAN)

\* ------------------------------------------------------ the process table
\* The job ends or is killed; its parent, the dashboard, has not waited for it.
ProcessExits ==
  /\ \E pid \in Pids :
       /\ procs[pid] = "pipeline"
       /\ procs' = [procs EXCEPT ![pid] = "zombie"]
  /\ last' = NoOp
  /\ UNCHANGED <<now, ingestFrame, userVars, enrichVars, hpc, hrec, pipeline_status, psutil, spc, rec, status, complete,
                 is_running, current_time, process, owner>>

\* The zombie is reaped: the pid is free again.
ZombieReaped ==
  /\ \E pid \in Pids :
       /\ procs[pid] = "zombie"
       /\ procs' = [procs EXCEPT ![pid] = "none"]
  /\ last' = NoOp
  /\ UNCHANGED <<now, ingestFrame, userVars, enrichVars, hpc, hrec, pipeline_status, psutil, spc, rec, status, complete,
                 is_running, current_time, process, owner>>

\* The operating system gives a free pid to an unrelated program.
PidReused ==
  /\ \E pid \in Pids :
       /\ procs[pid] = "none"
       /\ procs' = [procs EXCEPT ![pid] = "foreign"]
  /\ last' = NoOp
  /\ UNCHANGED <<now, ingestFrame, userVars, enrichVars, hpc, hrec, pipeline_status, psutil, spc, rec, status, complete,
                 is_running, current_time, process, owner>>

ForeignExits ==
  /\ \E pid \in Pids :
       /\ procs[pid] = "foreign"
       /\ procs' = [procs EXCEPT ![pid] = "none"]
  /\ last' = NoOp
  /\ UNCHANGED <<now, ingestFrame, userVars, enrichVars, hpc, hrec, pipeline_status, psutil, spc, rec, status, complete,
                 is_running, current_time, process, owner>>

TickPipeline ==
  /\ now < MaxPipelineTime
  /\ now' = now + 1
  /\ last' = NoOp
  /\ UNCHANGED <<ingestVars, pipeVars, userVars, enrichVars>>

\* The pipeline run state over a store at rest, holding what one ingestion
\* run leaves of the feed's submission 2; psutil is installed or not.
InitPipelineSpec ==
  /\ UsersIdle
  /\ EnrichIdle
  /\ now = ClockStart
  /\ \E c \in {c \in Feed : c.id = 2} :
       posts_raw = {Row(c)} /\ users = {c.author}
  /\ IngestIdle
  /\ feed = Feed
  /\ InitPipeline
  /\ psutil \in BOOLEAN

DashboardNext ==
  \E s \in Sessions :
    \/ SessionRun(s)
    \/ GetStatusRead(s)
    \/ GetStatusReturn(s)
    \/ GetStatusReadFails(s)
    \/ GetStatusAlive(s)
    \/ GetStatusFix(s)
    \/ CheckCompletion(s)
    \/ CheckCompletionFails(s)
    \/ NoLaunch(s)
    \/ LaunchFails(s)
    \/ Popen(s)
    \/ StorePid(s)
    \/ UpdateStart(s)

HealthNext ==
  \/ HealthRead
  \/ HealthAlive
  \/ HealthFix

ProcessNext ==
  \/ ProcessExits
  \/ ZombieReaped
  \/ PidReused
  \/ ForeignExits

NextPipeline == DashboardNext \/ HealthNext \/ ProcessNext \/ TickPipeline

SpecPipeline == InitPipelineSpec /\ [][NextPipeline]_vars

\* ===================================================== the author upsert
\* What the columns of user_data can hold.  PRAW: created_utc, comment_karma
\* and link_karma stay None when the attribute is missing, and is_verified is
\* author.has_verified_email, which may be None.  Pushshift: None, None, None,
\* False.
ProfileData(a) ==
  [id : {a}, username : {a},
   created_utc : {NULL, "2020"}, comment_karma : {NULL, "7"},
   link_karma : {NULL, "9"}, is_verified : {NULL, "false", "true"}]

\* A faulty variant: the incoming value is taken even when it is NULL.
CoalesceIncoming(incoming, stored) == incoming

\* COALESCE(EXCLUDED.col, users.col)
COALESCE(incoming, stored) == IF incoming # NULL THEN incoming ELSE stored

\* INSERT INTO users ... ON CONFLICT (id) DO UPDATE SET username = EXCLUDED.username,
\* col = COALESCE(EXCLUDED.col, users.col) for the other columns.
UserUpsertRow(stored, incoming) ==
  IF stored = NoUser
    THEN incoming
    ELSE [id |-> stored.id,
          username |-> incoming.username,
          created_utc |-> COALESCE(incoming.created_utc, stored.created_utc),
          comment_karma |-> COALESCE(incoming.comment_karma, stored.comment_karma),
          link_karma |-> COALESCE(incoming.link_karma, stored.link_karma),
          is_verified |-> COALESCE(incoming.is_verified, stored.is_verified)]

\* SELECT 1 FROM users WHERE id = %s for a candidate's author.  A known author
\* (a repeat sighting) leads to no write; for an unknown one user_data is built.
UserSelect ==
  /\ upc = "idle"
  /\ \E a \in Authors :
       IF user_rows[a] # NoUser
         THEN /\ last' = [op |-> "Sighting", id |-> a, stored |-> user_rows[a]]
              /\ UNCHANGED <<upc, user_data>>
         ELSE /\ user_data' \in ProfileData(a)
              /\ upc' = "insert"
              /\ last' = NoOp
  /\ UNCHANGED <<now, ingestVars, pipeVars, enrichVars, user_rows>>

\* Another ingestion run (the job is started by cron and by the dashboard)
\* commits a users row of its own.
OtherRunInserts ==
  /\ \E a \in Authors :
       /\ user_rows[a] = NoUser
       /\ \E d \in ProfileData(a) : user_rows' = [user_rows EXCEPT ![a] = d]
  /\ last' = NoOp
  /\ UNCHANGED <<now, ingestVars, pipeVars, enrichVars, upc, user_data>>

\* cur.execute(insert_user_query, user_data): the row is inserted, or merged
\* into the row another run has stored since the SELECT.
UserUpsert ==
  /\ upc = "insert"
  /\ user_rows' = [user_rows EXCEPT
                     ![user_data.id] = UserUpsertRow(user_rows[user_data.id], user_data)]
  /\ last' = [op |-> "Upsert", id |-> user_data.id,
              stored |-> user_rows[user_data.id], incoming |-> user_data]
  /\ upc' = "idle"
  /\ user_data' = NoUser
  /\ UNCHANGED <<now, ingestVars, pipeVars, enrichVars>>

\* The INSERT raises: conn.rollback(); continue.
UserUpsertFails ==
  /\ upc = "insert"
  /\ upc' = "idle"
  /\ user_data' = NoUser
  /\ last' = NoOp
  /\ UNCHANGED <<now, ingestVars, pipeVars, enrichVars, user_rows>>

InitUsers ==
  /\ UsersIdle
  /\ EnrichIdle
  /\ InitIngest
  /\ feed = Feed
  /\ InitPipeline
  /\ psutil = TRUE

NextUsers ==
  \/ UserSelect
  \/ OtherRunInserts
  \/ UserUpsert
  \/ UserUpsertFails

SpecUsers == InitUsers /\ [][NextUsers]_vars

\* ======================================================== Gemini scoring
\* max_retries of process_batch_with_api and the first wait, in seconds.
max_retries == 3
FirstWait == 5

\* max_reconnect_attempts of update_processed_posts
max_reconnect_attempts == 3

\* What the API can put under 'priority_score': a number, or JSON null.
Scores == 0 .. MaxScore

\* WHERE priority_score IS NULL
Unprocessed == {p \in posts_raw : priority_score[p.id] = NoScore}

\* fetch_unprocessed_posts: ORDER BY created_utc DESC LIMIT batch_size, as ids.
Batches ==
  {B \in SUBSET {p.id : p \in Unprocessed} :
     /\ Cardinality(B) = IF Cardinality(Unprocessed) < batch_size
                           THEN Cardinality(Unprocessed) ELSE batch_size
     /\ \A p \in Unprocessed, q \in Unprocessed :
          (p.id \in B /\ q.id \notin B) => p.created >= q.created}

\* The run begins: configuration, connection, SELECT COUNT(*) of the rows to
\* score; with none it returns at once.
ProcessPostsWithGemini ==
  /\ gpc = "idle"
  /\ batch_size' \in 1 .. MaxBatch
  /\ conn' = "up"
  /\ gpc' = IF Unprocessed = {} THEN "done" ELSE "fetch"
  /\ last' = NoOp
  /\ UNCHANGED <<now, ingestVars, pipeVars, userVars, priority_score, posts, attempt, waits,
                 analyzed_posts, reconnects>>

\* The server or the network drops the run's connection.
ConnectionLost ==
  /\ gpc \in {"fetch", "api", "update", "write"}
  /\ conn = "up"
  /\ conn' = "lost"
  /\ last' = NoOp
  /\ UNCHANGED <<now, ingestVars, pipeVars, userVars, priority_score, gpc, batch_size, posts,
                 attempt, waits, analyzed_posts, reconnects>>

\* while True: posts = fetch_unprocessed_posts(conn, batch_size); no rows end
\* the loop; on a lost connection the query raises, which ends the run.
FetchUnprocessedPosts ==
  /\ gpc = "fetch"
  /\ IF conn = "lost"
       THEN gpc' = "fatal" /\ UNCHANGED <<posts, attempt, waits>>
       ELSE IF Unprocessed = {}
         THEN gpc' = "done" /\ UNCHANGED <<posts, attempt, waits>>
         ELSE /\ posts' \in Batches
              /\ attempt' = 0
              /\ waits' = <<>>
              /\ gpc' = "api"
  /\ last' = [op |-> "Fetch", unprocessed |-> {p.id : p \in Unprocessed},
              fatal |-> conn = "lost"]
  /\ UNCHANGED <<now, ingestVars, pipeVars, userVars, priority_score, batch_size, analyzed_posts,
                 conn, reconnects>>

\* What json.loads of the response can give for the batch: a result entry for
\* some of the ids, each with a number or null under 'priority_score'.
Results ==
  UNION {[B -> Scores \cup {NoScore}] : B \in SUBSET posts}

\* process_batch_with_api, one pass of its loop: the call and the parsing work,
\* and the 'result' list is returned.
ApiAnswers ==
  /\ gpc = "api"
  /\ attempt' = attempt + 1
  /\ analyzed_posts' \in Results
  /\ reconnects' = 0
  /\ gpc' = "update"
  /\ last' = NoOp
  /\ UNCHANGED <<now, ingestVars, pipeVars, userVars, priority_score, batch_size, posts, waits, conn>>

\* wait_time = 5 * (2 ** attempt)
wait_time(n) == FirstWait * 2 ^ n

\* process_batch_with_api, one pass of its loop: the call or the parsing
\* raises.  Before the last attempt it sleeps and tries again; after the last
\* it returns [].
ApiFails ==
  /\ gpc = "api"
  /\ attempt' = attempt + 1
  /\ IF attempt < max_retries - 1
       THEN /\ waits' = Append(waits, wait_time(attempt))
            /\ UNCHANGED <<gpc, analyzed_posts, reconnects>>
            /\ last' = NoOp
       ELSE /\ analyzed_posts' = <<>>
            /\ reconnects' = 0
            /\ gpc' = "update"
            /\ last' = [op |-> "ApiGaveUp", attempts |-> attempt + 1, waits |-> waits]
            /\ UNCHANGED waits
  /\ UNCHANGED <<now, ingestVars, pipeVars, userVars, priority_score, batch_size, posts, conn>>

\* update_processed_posts, one pass of the connection loop: SELECT 1 works.
ConnectionGood ==
  /\ gpc = "update"
  /\ conn = "up"
  /\ gpc' = "write"
  /\ last' = NoOp
  /\ UNCHANGED <<now, ingestVars, pipeVars, userVars, priority_score, batch_size, posts, attempt,
                 waits, analyzed_posts, conn, reconnects>>

\* update_processed_posts, one pass of the connection loop: SELECT 1 raises.
\* Before the last attempt the connection is made anew, and get_db_connection
\* may raise in its turn, inside the handler; at the last attempt
\* InterfaceError is raised.  Either exception ends the run.
ConnectionBad ==
  /\ gpc = "update"
  /\ conn = "lost"
  /\ \E reconnected \in BOOLEAN :
       /\ IF reconnects < max_reconnect_attempts - 1 /\ reconnected
            THEN conn' = "up" /\ UNCHANGED gpc
            ELSE gpc' = "fatal" /\ UNCHANGED conn
       /\ reconnected => reconnects < max_reconnect_attempts - 1
       /\ last' = [op |-> "ConnectionTest", tests |-> reconnects + 1,
                   fatal |-> ~reconnected]
  /\ reconnects' = reconnects + 1
  /\ UNCHANGED <<now, ingestVars, pipeVars, userVars, priority_score, batch_size, posts, attempt,
                 waits, analyzed_posts>>

\* A faulty variant: an id the result leaves out is not written.
NewScoreOmitsUnlisted(id) ==
  IF id \in DOMAIN analyzed_posts THEN analyzed_posts[id] ELSE priority_score[id]

\* The priority_score written for an id of the batch:
\* analysis.get('priority_score', 0) for an id of the result, else 0.
NewScore(id) ==
  IF id \in DOMAIN analyzed_posts THEN analyzed_posts[id] ELSE 0

\* update_processed_posts: executemany(UPDATE posts_raw SET ... WHERE id = %s),
\* commit, and back to the head of the loop; an exception (here: the connection
\* was lost after the test) is raised again and ends the run.
UpdateProcessedPosts ==
  /\ gpc = "write"
  /\ IF conn = "up"
       THEN /\ priority_score' =
                 [id \in PostIds |-> IF id \in posts /\ (\E p \in posts_raw : p.id = id)
                                       THEN NewScore(id) ELSE priority_score[id]]
            /\ gpc' = "fetch"
       ELSE /\ gpc' = "fatal"
            /\ UNCHANGED priority_score
  /\ last' = [op |-> "Update", written |-> conn = "up", posts |-> posts,
              attempts |-> attempt, waits |-> waits,
              analyzed |-> DOMAIN analyzed_posts,
              unprocessed |-> {p.id : p \in Unprocessed}]
  /\ UNCHANGED <<now, ingestVars, pipeVars, userVars, batch_size, posts, attempt, waits,
                 analyzed_posts, conn, reconnects>>

\* The scoring run started after an ingestion: rows stored, none scored.
InitEnrich ==
  /\ UsersIdle
  /\ EnrichIdle
  /\ now = ClockStart
  /\ \E S \in SUBSET {c \in Feed : c.author # NoAuthor} :
       /\ \A c \in S, d \in S : c.author = d.author => c = d
       /\ posts_raw = {Row(c) : c \in S}
       /\ users = {c.author : c \in S}
  /\ IngestIdle
  /\ feed = Feed
  /\ InitPipeline
  /\ psutil = TRUE

NextEnrich ==
  \/ ProcessPostsWithGemini
  \/ ConnectionLost
  \/ FetchUnprocessedPosts
  \/ ApiAnswers
  \/ ApiFails
  \/ ConnectionGood
  \/ ConnectionBad
  \/ UpdateProcessedPosts

SpecEnrich == InitEnrich /\ [][NextEnrich]_vars

\* ----------------------------------------------- the review on its own
\* The reviewer at the dashboard over what the ingestion has stored (Items of
\* the feed that have an author, at most one per author), no ingestion running.
InitReview ==
  /\ UsersIdle
  /\ EnrichIdle
  /\ now = ClockStart
  /\ \E S \in SUBSET {c \in Feed : c.author # NoAuthor} :
       /\ \A c \in S, d \in S : c.author = d.author => c = d
       /\ posts_raw = {Row(c) : c \in S}
       /\ users = {c.author : c \in S}
  /\ IngestIdle
  /\ feed = Feed
  /\ InitPipeline
  /\ psutil = TRUE

NextReview ==
  \/ UpdatePostStatus
  \/ SendSelectedPostsEmailAny
  \/ SyncSentPostsToGoogleSheetsAny

SpecReview == InitReview /\ [][NextReview]_vars

\* ------------------------------------------- the health check on its own
\* The rows the dashboard's writes can leave in pipeline_status: 'start' sets
\* last_run_timestamp together with is_running, store_pipeline_pid and the
\* fixes set process_pid on their own.
HealthRows ==
  {NoRow} \cup
  {r \in [last_run : {NoTime, ClockStart}, is_running : BOOLEAN,
          last_completion : {NoTime, ClockStart}, process_pid : {NoPid} \cup Pids] :
     r.is_running => r.last_run # NoTime}

\* The health check started from cron or a shell, against any such row and
\* any process table.
InitHealth ==
  /\ UsersIdle
  /\ EnrichIdle
  /\ InitIngest
  /\ feed = Feed
  /\ pipeline_status \in HealthRows
  /\ procs \in [Pids -> {"none", "pipeline", "zombie", "foreign"}]
  /\ psutil \in BOOLEAN
  /\ spc = [s \in Sessions |-> "idle"]
  /\ rec = [s \in Sessions |-> NoRec]
  /\ status = [s \in Sessions |-> DefaultStatus]
  /\ complete = [s \in Sessions |-> FALSE]
  /\ is_running = [s \in Sessions |-> FALSE]
  /\ current_time = [s \in Sessions |-> 0]
  /\ process = [s \in Sessions |-> NoPid]
  /\ owner = NoPid
  /\ hpc = "idle"
  /\ hrec = NoRec

NextHealth ==
  \/ HealthNoProbe
  \/ HealthRead
  \/ HealthAliveAny
  \/ HealthFixAny
  \/ ProcessNext

SpecHealth == InitHealth /\ [][NextHealth]_vars

\* ================================================================ properties
OnePerAuthor(rows) ==
  \A p \in rows, q \in rows :
    (p.author # NoAuthor /\ p.author = q.author) => p = q

\* C1: in every state of the items store, committed or as the ingestion
\* transaction sees it, each non-null author has at most one Item.
C1_AtMostOneItemPerAuthor ==
  /\ OnePerAuthor(posts_raw)
  /\ OnePerAuthor(View)

\* An author's Item has just been replaced by a newer one while another
\* author's Item is stored.
C1_Witness ==
  /\ last.op = "Admit"
  /\ last.result = "Replaced"
  /\ last.existing \notin View
  /\ Row(last.cand) \in View
  /\ \E p \in View : p.author # last.cand.author

\* C2: admitting a candidate whose author has a stored Item in a protected
\* status (selected, answered, sent, lead) yields SkippedProtected and changes
\* neither the items nor the authors.
C2_ProtectedAlwaysSkipped ==
  (/\ last.op \in {"Admit", "Delete"}
   /\ last.existing # NoPost
   /\ last.existing.status \in ProtectedStatuses)
  => (/\ last.op = "Admit"
      /\ last.result = "SkippedProtected"
      /\ View = last.preView
      /\ UsersView = last.preUsers)

\* C3: whatever the interleaving of admission with the reviewer's committed
\* status changes, a row whose committed status is protected at the moment of
\* the DELETE is not deleted.
C3_NoProtectedRowDeleted ==
  last.op = "Delete" => last.statusAtDelete \notin ProtectedStatuses

\* C10: a reap deletes exactly the Items created before now - RetentionDays
\* whose status is null or outside {selected, answered, sent, lead}, and
\* leaves every other Item as it was.
C10_ReapExact ==
  last.op = "Cleanup" =>
    posts_raw = {p \in last.prePosts :
                   ~(/\ p.created < now - RetentionDays
                     /\ p.status \notin ProtectedStatuses)}

\* A reap that deleted an old unprotected Item and kept a protected Item of
\* the same age.
C10_Witness ==
  /\ last.op = "Cleanup"
  /\ \E p \in last.prePosts : p \notin posts_raw /\ p.status \in {NULL, "open", "ignored"}
  /\ \E p \in posts_raw : p.created < now - RetentionDays /\ p.status \in ProtectedStatuses

\* A reconciliation step: the status read of the dashboard or the health
\* check, once it has inspected the owner process.
Reconciled == last.op \in {"GetStatus", "Health"} /\ last.proc # "unprobed"

\* The store has accepted the write of the failure, if there was one.
FixStored == last.fixed => last.writeOk

Cleared(row) == row # NoRow /\ ~row.is_running /\ row.process_pid = NoPid

OwnerGone == last.op = "GetStatus" /\ last.proc \in {"none", "zombie"}

\* C5: when the record is running and the owner process does not exist or
\* is a zombie, one status read leaves the stored record with isRunning =
\* false and ownerProcessId = null, and the status read right after it changes
\* nothing in the stored record.
C5_ReconcileDeadOwner ==
  /\ OwnerGone => Cleared(pipeline_status)
  /\ (last.op = "GetStatus" /\ last.after \in {"none", "zombie"})
       => (~last.fixed /\ pipeline_status = last.pre)

\* C5, amended: the same, when the liveness check can tell (the process does
\* not exist, or it is a zombie and psutil is installed or ps answers in
\* time) and the store accepts the write of the failure.
C5_ReconcileDeadOwnerWhenSeen ==
  /\ (OwnerGone /\ ~(last.proc = "zombie" /\ last.probe = "timeout"))
       => (last.fixed /\ (last.writeOk => Cleared(pipeline_status)))
  /\ (last.op = "GetStatus" /\ last.after \in {"none", "zombie"})
       => (~last.fixed /\ pipeline_status = last.pre /\ Cleared(pipeline_status))

\* The status read right after the one that marked a dead owner's run failed:
\* the record is cleared and this read has left it alone.
C5_Witness ==
  /\ last.op = "GetStatus"
  /\ last.after \in {"none", "zombie"}
  /\ Cleared(pipeline_status)
  /\ pipeline_status = last.pre

\* C6: in every state of the singleton record, isRunning = true implies that
\* ownerProcessId is set, and is the pid of the process spawned by the launch
\* that set isRunning.
C6_RunningHasOwnerPid ==
  RowRunning(pipeline_status)
  => (pipeline_status.process_pid # NoPid /\ pipeline_status.process_pid = owner)

\* C7: a launch and a reconciliation-triggered failure that interleave leave
\* the record one of their serial orders leaves; so no reconciliation that
\* read an earlier run's record, and found that run's process gone, clears the
\* record of a launch made since, whose process is alive.
C7_FailureNeverClearsLiveLaunch ==
  (Reconciled /\ last.fixed /\ last.writeOk /\ last.proc # "pipeline")
  => ~(/\ RowRunning(last.pre)
       /\ last.pre.process_pid \notin {NoPid, last.row.process_pid}
       /\ procs[last.pre.process_pid] = "pipeline"
       /\ Cleared(pipeline_status))

\* C8: after a launch has recorded isRunning = true and ownerProcessId = P and
\* P has been killed, the next status read (one whose inspection of P works)
\* returns isRunning = false and ownerProcessId = null to its caller.
C8_ReadAfterKillReturnsCleared ==
  (/\ OwnerGone
   /\ last.probe = "ok"
   /\ FixStored
   /\ last.row = last.pre)
  => (~last.returned.is_running /\ last.returned.process_pid = NoPid)

\* An Item created strictly after the startedAt the completion check has read.
NewerItemStored == \E p \in posts_raw : p.created > last.returned.last_run

\* A call of check_pipeline_completion has ended on a record its status read
\* found running: in the status read, which found the owner process gone and
\* marked the run failed, or after the count.
CompletionChecked ==
  \/ last.op = "GetStatus" /\ last.ctx = "cc" /\ RowRunning(last.row)
       /\ ~last.returned.is_running /\ last.proc \in {"none", "zombie"} /\ FixStored
  \/ last.op = "CheckCompletion"

CompletionTaken == last.op = "CheckCompletion" /\ last.completed

\* C9: while the record is running, the completion transition is taken
\* exactly when an Item created after startedAt is stored; it records
\* completedAt and clears isRunning (when the store accepts the write), and
\* without such an Item the transition is not taken.
C9_CompletionExactlyOnNewItems ==
  CompletionChecked
  => /\ CompletionTaken <=> NewerItemStored
     /\ (CompletionTaken /\ last.writeOk)
          => (~pipeline_status.is_running /\ pipeline_status.last_completion = now)

\* C9, amended: while the record is still running after the reconciliation of
\* the completion check's own status read, and the count query and the store
\* answer, the completion transition is taken exactly when an Item created
\* after startedAt is stored; it records completedAt and clears isRunning
\* (ownerProcessId stays), and without such an Item the record is left as it
\* was.
C9_CompletionExactlyOnNewItemsIfAlive ==
  last.op = "CheckCompletion"
  => /\ last.completed <=> NewerItemStored
     /\ (last.completed /\ last.writeOk)
          => pipeline_status =
               [last.pre EXCEPT !.is_running = FALSE, !.last_completion = now]
     /\ ~last.completed => pipeline_status = last.pre

\* A completion check has marked a running record complete on the evidence
\* of a newer Item.
C9_Witness ==
  /\ last.op = "CheckCompletion"
  /\ last.completed
  /\ last.writeOk
  /\ last.pre.is_running
  /\ ~pipeline_status.is_running
  /\ pipeline_status.last_completion = now
  /\ NewerItemStored

\* An admission has ended, without a storage error, for a candidate whose
\* author had a stored Item e.
Admitted == last.op = "Admit" /\ last.result # "Error"

Distinct(e, c) == e.id # c.id /\ (e.title # c.title \/ e.subreddit # c.subreddit)

Stored(id) == \E p \in View : p.id = id

\* C11: a candidate of an author without a stored Item is Inserted; a second
\* candidate of that author, with another id and another title or source
\* collection, is Replaced while the first Item is unprotected, and storage
\* then holds the second Item and not the first.
C11_InsertedThenReplaced ==
  /\ (Admitted /\ last.existing = NoPost)
       => (last.result = "Inserted" /\ Row(last.cand) \in View)
  /\ (/\ Admitted
      /\ last.existing # NoPost
      /\ last.existing.status \notin ProtectedStatuses
      /\ Distinct(last.existing, last.cand))
       => /\ last.result = "Replaced"
          /\ Row(last.cand) \in View
          /\ ~Stored(last.existing.id)

WasStored == \E p \in last.preView : p.id = last.cand.id

C14_FailureKeepsEarlierAdmissions ==
  (last.op = "Admit" /\ last.result = "Error")
  => last.preView \subseteq View

\* C15: a failure while one candidate is processed never ends the processing
\* of its source: the loop over the same source goes on with the next candidate.
C15_FailureNeverEndsSource ==
  /\ (last.op = "Admit" /\ last.result \in {"Error", "CompareError"})
       => ipc = "fetch"
  /\ last.op = "CandidateError"
       => (ipc = "fetch" /\ src = last.src /\ api = last.api)

\* C16: when a launch fails (the script is not found, the spawn raises, or the
\* 'start' update of the store fails), the singleton row is left exactly as it
\* was when the launch was attempted.
C16_FailedLaunchLeavesRecord ==
  (last.op = "Launch" /\ ~last.launched /\ last.launchPre # NoRec)
  => pipeline_status = last.launchPre

\* C17: whenever the liveness check cannot inspect the live owner process
\* (access denied, the ps command exits with an error, or it times out) it
\* reports alive, so the reconciliation does not clear is_running.
C17_UninspectableReportsAlive ==
  (/\ Reconciled
   /\ FixStored
   /\ last.proc = "pipeline"
   /\ last.probe \in {"denied", "psfail", "timeout"})
  => ~last.fixed

HealthDone == last.op = "Health"

\* C18 (as stated): the health check exits with 0 when it found no issue and
\* also when every issue it found was repaired, with a non-zero code otherwise.
C18_ExitZeroWhenAllRepaired ==
  HealthDone
  => (last.result.exit = 0 <=> last.result.issues \subseteq last.result.fixes)

\* C18 (amended): the health check exits with 0 exactly when it found no issue;
\* an issue that was repaired still gives exit code 1; this is so with and
\* without the quiet flag.
C18_ExitZeroIffNoIssues ==
  HealthDone
  => /\ last.result.exit \in {0, 1}
     /\ last.result.exit = 0 <=> last.result.issues = {}
     /\ last.fixed => last.result.exit = 1

C18_Witness ==
  /\ HealthDone
  /\ last.fixed
  /\ last.writeOk
  /\ last.result.quiet
  /\ last.result.issues = {"stale"}
  /\ last.result.fixes = {"stale"}
  /\ last.result.exit = 1
  /\ Cleared(pipeline_status)

Selected(rows) == {p.id : p \in {q \in rows : q.status = "selected"}}

Sent(rows) == {p.id : p \in {q \in rows : q.status = "sent"}}

\* C19 (as stated): the e-mail and the sheet export run only on Items whose
\* status is already sent, and a failure of either leaves the selected Items
\* sent all the same.
C19_SinksAfterSentAndNeverBlock ==
  /\ last.op = "Email" => Selected(last.pre) \subseteq Sent(posts_raw)
  /\ last.op = "Sheet" => (~last.success => Sent(last.pre) \subseteq Sent(posts_raw))

\* C19 (amended): the e-mail is sent while the Items are still selected, and
\* they become sent exactly when it went out (a failed e-mail leaves every row
\* as it was); the sheet export runs on Items that are sent, and its failure
\* leaves every row as it was, so it never undoes the transition.
C19_SentFollowsEmailSheetNeverUndoes ==
  /\ last.op = "Email" =>
       /\ Selected(last.pre) # {}
       /\ last.success =>
            /\ Selected(last.pre) \subseteq Sent(posts_raw)
            /\ \A p \in last.pre : p.status # "selected" => p \in posts_raw
       /\ ~last.success => posts_raw = last.pre
  /\ last.op = "Sheet" =>
       /\ Sent(last.pre) # {}
       /\ ~last.success => posts_raw = last.pre
       /\ last.success =>
            \A p \in last.pre : p.status # "sent" => p \in posts_raw

C19_Witness ==
  /\ last.op = "Email"
  /\ ~last.success
  /\ Selected(posts_raw) # {}
  /\ Sent(posts_raw) # {}

TxEmpty == txDel = {} /\ txIns = {} /\ txUsers = {}

\* When the cleanup is due or has just run, no admission is under way and
\* nothing of the run is uncommitted.
ReapAfterCommit ==
  (ipc = "cleanup" \/ last.op = "Cleanup") => (TxEmpty /\ submission = NoPost)

\* The cleanup is entered only from the end of the last subreddit, only the
\* end of the run follows it, and leaving the last subreddit leads to it
\* (unless Pushshift's feed raised, which ends the run with sources undrained).
ReapStep ==
  /\ (ipc # "cleanup" /\ ipc' = "cleanup") => (ipc = "fetch" /\ src = Len(Subreddits))
  /\ ipc = "cleanup" => ipc' \in {"cleanup", "idle"}
  /\ (ipc = "fetch" /\ src = Len(Subreddits) /\ ipc' \notin {"fetch", "decide"})
       => (ipc' = "cleanup" \/ (api = "pushshift" /\ ipc' = "idle"))

\* C20: within one ingestion run the cleanup happens after every admission of
\* the run has completed and been committed, at most once, no admission step
\* follows it, and it is called whenever all subreddits have been drained.
C20_ReapOnceAfterAdmissions == []ReapAfterCommit /\ [][ReapStep]_vars

C20_Witness ==
  /\ last.op = "Cleanup"
  /\ ipc = "idle"
  /\ TxEmpty
  /\ last.prePosts # posts_raw
  /\ \E p \in posts_raw : p.subreddit = Subreddits[Len(Subreddits)]

\* A candidate whose id was already stored has been yielded by the feed of the
\* current subreddit in this run, before the candidate of the last step (rows
\* admitted in this run are uncommitted until the subreddit's loop ends).
StoredSeenBefore ==
  \E p \in posts_raw : p.id \in offered /\ p.id # last.cand.id

\* C21: once a candidate whose id is already in storage has been seen while a
\* source is pulled, no later candidate of that source is admitted in that run.
C21_NoAdmissionAfterStoredSeen ==
  (last.op = "Admit" /\ last.result \in {"Inserted", "Replaced"})
  => ~StoredSeenBefore

\* The batch of the last step was written after the API had failed for it on
\* every attempt (no result came back).
WrittenAfterFailure ==
  last.op = "Update" /\ last.written /\ last.attempts = 3 /\ last.analyzed = {}

\* C22: the API call for a batch is attempted at most 3 times, with a wait
\* that doubles between attempts; when every attempt has failed the batch
\* yields no result, the run is not ended, and once the batch is written every
\* row of it has score 0 and the loop goes on to fetch the next batch.
C22_RetriesThenZeroScores ==
  /\ attempt <= 3
  /\ Len(waits) <= 2
  /\ \A i \in 1 .. Len(waits) : waits[i] = IF i = 1 THEN 5 ELSE 2 * waits[i - 1]
  /\ gpc = "api" => Len(waits) = attempt
  /\ last.op = "ApiGaveUp" =>
       /\ last.attempts = 3
       /\ last.waits = <<5, 10>>
       /\ analyzed_posts = <<>>
       /\ gpc = "update"
  /\ WrittenAfterFailure =>
       /\ \A id \in last.posts : priority_score[id] = 0
       /\ gpc = "fetch"

C22_Witness ==
  /\ WrittenAfterFailure
  /\ last.waits = <<5, 10>>
  /\ last.posts # {}
  /\ \A id \in last.posts : priority_score[id] = 0
  /\ Unprocessed # {}
  /\ gpc = "fetch"

\* C23: a connection found lost by update_processed_posts is retried with
\* reconnection; the run is ended only after the third test of the connection
\* has failed, and a connection that comes back lets the batch be written.
C23_FatalOnlyAfterThirdAttempt ==
  last.op = "ConnectionTest" =>
    /\ last.fatal => last.tests = 3
    /\ ~last.fatal => (conn = "up" /\ gpc = "update")

ProfileColumns == {"created_utc", "comment_karma", "link_karma", "is_verified"}

\* A users row that is stored stays stored, and none of its columns that holds
\* a value comes to hold NULL.
UserRowKept ==
  \A a \in Authors :
    user_rows[a] # NoUser =>
      /\ user_rows'[a] # NoUser
      /\ user_rows'[a].id = user_rows[a].id
      /\ user_rows'[a].username # NULL
      /\ \A col \in ProfileColumns :
           user_rows[a][col] # NULL => user_rows'[a][col] # NULL

\* C24: a users row once stored is never deleted by the ingestion, and a
\* column of it that holds a value is never replaced by NULL when the author is
\* seen again.
C24_AuthorKeptAndNotNulled == [][UserRowKept]_vars

C24_Witness ==
  /\ last.op = "Upsert"
  /\ last.stored # NoUser
  /\ last.stored.created_utc # NULL
  /\ last.incoming.created_utc = NULL
  /\ user_rows[last.id].created_utc = last.stored.created_utc

\* C25: every stored Item refers to a users row that is stored, in what is
\* committed and in what the ingestion transaction sees; after a failed users
\* or Item insert nothing of the admission is left to be committed.
C25_ItemsHaveAuthors ==
  /\ \A p \in posts_raw : p.author # NoAuthor /\ p.author \in users
  /\ \A p \in View : p.author \in UsersView
  /\ (last.op = "Admit" /\ last.result = "Error") => (TxEmpty /\ View = posts_raw)

C25_Witness ==
  /\ last.op = "Admit"
  /\ last.result = "Error"
  /\ last.cand.author \notin UsersView
  /\ Row(last.cand) \notin View
  /\ posts_raw # {}

WholesaleStep(from, to) ==
  /\ posts_raw' = {IF p.status = from THEN [p EXCEPT !.status = to] ELSE p : p \in posts_raw}
  /\ UNCHANGED <<now, users, txDel, txIns, txUsers, ipc, src, offered, submission>>

SentLeadStep ==
  /\ \A p \in posts_raw' : p.status = "sent" =>
       \E q \in posts_raw :
         /\ q.id = p.id
         /\ q.status = "sent" \/ (q.status = "selected" /\ WholesaleStep("selected", "sent"))
  /\ \A p \in posts_raw' : p.status = "lead" =>
       \E q \in posts_raw :
         /\ q.id = p.id
         /\ q.status = "lead" \/ (q.status = "sent" /\ WholesaleStep("sent", "lead"))
  /\ \A p \in txIns' : p.status = NULL

C27_SentAndLeadOnlyByTheirSteps == [][SentLeadStep]_vars

\* During an ingestion run the store holds an Item that went from selected to
\* sent and on to lead, beside one that is selected and one that is sent.
C27_Witness ==
  /\ ipc # "idle"
  /\ \E p \in posts_raw : p.status = "lead"
  /\ \E p \in posts_raw : p.status = "sent"
\* A status read of the dashboard's refresh, made by main() itself or by
\* check_pipeline_completion, that found the record running, its owner process
\* gone or a zombie, and an Item created after startedAt in storage.
DeadOwnerWithNewItems ==
  /\ last.op = "GetStatus"
  /\ last.ctx \in {"m1", "cc"}
  /\ RowRunning(last.row)
  /\ last.proc \in {"none", "zombie"}
  /\ last.row.last_run # NoTime
  /\ NewPostsSince(last.row.last_run)

\* The refresh goes on to the count of new Items (and so to the completion).
GoesOnToCount == \E s \in Sessions : spc[s] = "ccq"

\* C28: on a refresh the reconciliation runs before the completion check:
\* with the record running, the owner process exited and newer Items stored,
\* the record becomes failed (isRunning = false, ownerProcessId = null), the
\* completion check does not go on to its count and completedAt stays.
C28_DeadOwnerFailsNotCompletes ==
  (DeadOwnerWithNewItems /\ FixStored)
  => /\ Cleared(pipeline_status)
     /\ pipeline_status.last_completion = last.pre.last_completion
     /\ ~GoesOnToCount

\* C28, amended: the same, when the liveness check can tell that the owner
\* has exited (the process does not exist, or it is a zombie and psutil is
\* installed or ps answers in time); the record is cleared when the store
\* accepts the write, and whether or not it does the completion check of the
\* refresh returns without counting.
C28_DeadOwnerSeenFailsNotCompletes ==
  (DeadOwnerWithNewItems /\ ~(last.proc = "zombie" /\ last.probe = "timeout"))
  => /\ last.fixed
     /\ last.writeOk => Cleared(pipeline_status)
     /\ pipeline_status.last_completion = last.pre.last_completion
     /\ ~GoesOnToCount

\* The status read of check_pipeline_completion has marked failed a run whose
\* owner is a zombie, with newer Items stored, and no completion was recorded.
C28_Witness ==
  /\ DeadOwnerWithNewItems
  /\ last.ctx = "cc"
  /\ last.proc = "zombie"
  /\ last.fixed /\ last.writeOk
  /\ Cleared(pipeline_status)
  /\ pipeline_status.last_completion = NoTime
\* C29: when a batch is written every Item fetched in it has a non-null
\* score, so each completed batch leaves strictly fewer unscored Items than it
\* found (and the loop, which ends when none is left, terminates).
C29_BatchWrittenLeavesFewerUnscored ==
  (last.op = "Update" /\ last.written)
  => /\ \A id \in last.posts : priority_score[id] # NoScore
     /\ {p.id : p \in Unprocessed} \subseteq last.unprocessed
     /\ {p.id : p \in Unprocessed} # last.unprocessed
\* C30: at most one launched pipeline job is alive at any time: no job is
\* spawned while a job launched before is still running.  Stated for the
\* launch that follows a recorded completion: when the button starts a job
\* and the record reports the job launched last as complete, that job is not
\* alive.
C30_NoSpawnWhileLaunchedJobAlive ==
  (/\ last.op = "Popen"
   /\ last.launchPre # NoRow
   /\ last.launchPre.process_pid # NoPid
   /\ ~last.launchPre.is_running
   /\ last.launchPre.last_completion # NoTime)
  => procs[last.launchPre.process_pid] # "pipeline"
====
